---- MODULE Spec2Model ----
(***************************************************************************)
(* Column-name resolution of the AS/400 output modernizer.                 *)
(*                                                                         *)
(* The module models backend/services/ai_service.py (AIService) and the    *)
(* part of backend/services/file_service.py that renames the columns of a  *)
(* parsed table (process_file, _modernize_column_names).  Column names are *)
(* strings; the regular expressions of the source are written out as       *)
(* operators over the characters of a string.  The alphabet is ASCII.      *)
(***************************************************************************)
EXTENDS Integers, Sequences, FiniteSets, TLC

(***************************************************************************)
(* Characters and elementary string functions (Python str / re classes).   *)
(***************************************************************************)
LowerLetters == "abcdefghijklmnopqrstuvwxyz"
UpperLetters == "ABCDEFGHIJKLMNOPQRSTUVWXYZ"
DigitChars == "0123456789"

CharAt(s, i) == SubSeq(s, i, i)

CharSet(s) == {CharAt(s, i) : i \in 1..Len(s)}

LowerSet == CharSet(LowerLetters)
UpperSet == CharSet(UpperLetters)
DigitSet == CharSet(DigitChars)

\* \s of the re module, restricted to the blank and the tab
SpaceSet == {" ", "\t"}

\* \w of the re module, restricted to ASCII
WordSet == LowerSet \cup UpperSet \cup DigitSet \cup {"_"}

IndexIn(c, s) == CHOOSE i \in 1..Len(s) : CharAt(s, i) = c

LowerChar(c) == IF c \in UpperSet THEN CharAt(LowerLetters, IndexIn(c, UpperLetters)) ELSE c
UpperChar(c) == IF c \in LowerSet THEN CharAt(UpperLetters, IndexIn(c, LowerLetters)) ELSE c

RECURSIVE StrLower(_)
StrLower(s) == IF s = "" THEN "" ELSE LowerChar(Head(s)) \o StrLower(Tail(s))

RECURSIVE StrUpper(_)
StrUpper(s) == IF s = "" THEN "" ELSE UpperChar(Head(s)) \o StrUpper(Tail(s))

\* str.lstrip / str.rstrip of the characters of a set
RECURSIVE LStrip(_, _)
LStrip(s, drop) == IF s # "" /\ Head(s) \in drop THEN LStrip(Tail(s), drop) ELSE s

RECURSIVE RStrip(_, _)
RStrip(s, drop) ==
    IF s # "" /\ CharAt(s, Len(s)) \in drop THEN RStrip(SubSeq(s, 1, Len(s) - 1), drop) ELSE s

\* str.strip()
Strip(s) == RStrip(LStrip(s, SpaceSet), SpaceSet)

\* str.strip('_')
StripUnderscores(s) == RStrip(LStrip(s, {"_"}), {"_"})

StartsWith(s, p) == Len(s) >= Len(p) /\ SubSeq(s, 1, Len(p)) = p
EndsWith(s, p) == Len(s) >= Len(p) /\ SubSeq(s, Len(s) - Len(p) + 1, Len(s)) = p

\* re.search(r'.*sub.*', s): sub occurs somewhere in s
Contains(s, sub) == \E i \in 1..(Len(s) - Len(sub) + 1) : SubSeq(s, i, i + Len(sub) - 1) = sub

\* re.sub(r'[class]+', rep, s): every maximal run of characters of the class becomes rep
RECURSIVE ReplaceRuns(_, _, _)
ReplaceRuns(s, class, rep) ==
    IF s = "" THEN ""
    ELSE IF Head(s) \in class THEN rep \o ReplaceRuns(LStrip(s, class), class, rep)
    ELSE Head(s) \o ReplaceRuns(Tail(s), class, rep)

\* re.sub(r'[^keep]', rep, s): every character outside the class becomes rep
RECURSIVE ReplaceOutside(_, _, _)
ReplaceOutside(s, keep, rep) ==
    IF s = "" THEN ""
    ELSE (IF Head(s) \in keep THEN Head(s) ELSE rep) \o ReplaceOutside(Tail(s), keep, rep)

\* str(i) for the small non-negative integers the model uses
RECURSIVE IntToStr(_)
IntToStr(n) == IF n < 10 THEN CharAt(DigitChars, n + 1)
               ELSE IntToStr(n \div 10) \o CharAt(DigitChars, (n % 10) + 1)

Min(S) == CHOOSE x \in S : \A y \in S : x <= y

(***************************************************************************)
(* AIService: the pure functions of services/ai_service.py.                *)
(***************************************************************************)

\* re.sub(r'([a-z])([A-Z])', r'\1_\2', s)
RECURSIVE CamelSplit(_)
CamelSplit(s) ==
    IF Len(s) < 2 THEN s
    ELSE IF Head(s) \in LowerSet /\ CharAt(s, 2) \in UpperSet
         THEN Head(s) \o "_" \o CamelSplit(Tail(s))
         ELSE Head(s) \o CamelSplit(Tail(s))

\* _to_snake_case without its strip('_')
ToSnakeCaseKeepEnds(s) ==
    IF Strip(s) = "" THEN "column"
    ELSE LET s1 == Strip(s)
             s2 == CamelSplit(s1)
             s3 == ReplaceOutside(s2, WordSet \cup SpaceSet, "_")
             s4 == ReplaceRuns(s3, SpaceSet, "_")
             s5 == ReplaceRuns(s4, {"_"}, "_")
         IN  IF s5 = "" THEN "column" ELSE StrLower(s5)

\* AIService._to_snake_case
ToSnakeCase(s) ==
    IF Strip(s) = "" THEN "column"
    ELSE LET s1 == Strip(s)
             s2 == CamelSplit(s1)
             s3 == ReplaceOutside(s2, WordSet \cup SpaceSet, "_")
             s4 == ReplaceRuns(s3, SpaceSet, "_")
             s5 == ReplaceRuns(s4, {"_"}, "_")
             s6 == StripUnderscores(StrLower(s5))
         IN  IF s6 = "" THEN "column" ELSE s6

MinNameLen == 2
MaxNameLen == 40

\* invalid_patterns of _validate_column_name, each r'.*<word>.*' searched ignoring case
InvalidPatterns ==
    << "customeromer", "identifierifier", "addressess", "numberber", "the", "a", "an",
       "column", "field", "value", "name", "legacy", "original", "old" >>

\* re.match(r'^[a-z][a-z0-9_]*$', name)
IsSnakeIdentifier(name) ==
    /\ name # ""
    /\ Head(name) \in LowerSet
    /\ \A i \in 2..Len(name) : CharAt(name, i) \in (LowerSet \cup DigitSet \cup {"_"})

\* AIService._validate_column_name
ValidateColumnName(name, original) ==
    LET lowered == StrLower(name)
    IN  /\ ~(name = "" \/ Len(name) < MinNameLen \/ Len(name) > MaxNameLen)
        /\ \A k \in 1..Len(InvalidPatterns) : ~Contains(lowered, InvalidPatterns[k])
        /\ IsSnakeIdentifier(name)
        /\ lowered # StrLower(original)

\* the characters re.sub(r'[\'"`]', '', ...) removes; the alphabet has no backquote
QuoteSet == {"'", "\""}

\* alternatives of the two artifact expressions of _clean_column_name, in the order written
LeadingArtifacts == << "the", "a", "an", "column", "field", "name", "value", "result", "output" >>
TrailingArtifacts == << "column", "field", "name", "value", "result", "output" >>

\* re.sub(r'^(the|a|an|...)\s*', '', s): the first alternative that matches at the start wins
StripLeadingArtifact(s) ==
    LET ks == {k \in 1..Len(LeadingArtifacts) : StartsWith(s, LeadingArtifacts[k])}
    IN  IF ks = {} THEN s
        ELSE LStrip(SubSeq(s, Len(LeadingArtifacts[Min(ks)]) + 1, Len(s)), SpaceSet)

\* re.sub(r'\s*(column|...)$', '', s): the leftmost match takes the blanks before the word
StripTrailingArtifact(s) ==
    LET ks == {k \in 1..Len(TrailingArtifacts) : EndsWith(s, TrailingArtifacts[k])}
    IN  IF ks = {} THEN s
        ELSE RStrip(SubSeq(s, 1, Len(s) - Len(TrailingArtifacts[Min(ks)])), SpaceSet)

\* AIService._clean_column_name
CleanColumnName(name) ==
    IF name = "" THEN ""
    ELSE LET c1 == ReplaceRuns(StrLower(Strip(name)), QuoteSet, "")
             c2 == StripLeadingArtifact(c1)
             c3 == StripTrailingArtifact(c2)
             c4 == ToSnakeCase(c3)
             c5 == StripUnderscores(ReplaceRuns(c4, {"_"}, "_"))
         IN  IF c5 = "" THEN "column" ELSE c5

\* abbreviations of _heuristic_transformation, in dictionary order
Abbreviations == <<
    <<"cust", "customer">>, <<"emp", "employee">>, <<"addr", "address">>,
    <<"dept", "department">>, <<"prod", "product">>, <<"qty", "quantity">>,
    <<"amt", "amount">>, <<"desc", "description">>, <<"num", "number">>,
    <<"id", "id">>, <<"no", "number">>, <<"dt", "date">>,
    <<"cd", "code">>, <<"nm", "name">>, <<"stat", "status">>,
    <<"typ", "type">>, <<"flg", "flag">>, <<"act", "active">> >>

\* re.search(rf'^{abbr}[^a-z]|^{abbr}$|[^a-z]{abbr}[^a-z]|[^a-z]{abbr}$', r)
AbbreviationStandsAlone(r, abbr) ==
    \E p \in 1..(Len(r) - Len(abbr) + 1) :
        /\ SubSeq(r, p, p + Len(abbr) - 1) = abbr
        /\ (p = 1 \/ CharAt(r, p - 1) \notin LowerSet)
        /\ (p + Len(abbr) - 1 = Len(r) \/ CharAt(r, p + Len(abbr)) \notin LowerSet)

\* \babbr\b matches at position p of r
WordMatchAt(r, p, abbr) ==
    /\ p + Len(abbr) - 1 <= Len(r)
    /\ SubSeq(r, p, p + Len(abbr) - 1) = abbr
    /\ (p = 1 \/ CharAt(r, p - 1) \notin WordSet)
    /\ (p + Len(abbr) - 1 = Len(r) \/ CharAt(r, p + Len(abbr)) \notin WordSet)

\* re.sub(rf'\b{abbr}\b', full, r), scanning r from position p
RECURSIVE SubWord(_, _, _, _)
SubWord(r, p, abbr, full) ==
    IF p > Len(r) THEN ""
    ELSE IF WordMatchAt(r, p, abbr) THEN full \o SubWord(r, p + Len(abbr), abbr, full)
    ELSE CharAt(r, p) \o SubWord(r, p + 1, abbr, full)

\* the for loop of _heuristic_transformation from the k-th abbreviation on
RECURSIVE ExpandAbbreviations(_, _)
ExpandAbbreviations(r, k) ==
    IF k > Len(Abbreviations) THEN r
    ELSE ExpandAbbreviations(
             IF AbbreviationStandsAlone(r, Abbreviations[k][1])
             THEN SubWord(r, 1, Abbreviations[k][1], Abbreviations[k][2])
             ELSE r,
             k + 1)

\* AIService._heuristic_transformation
HeuristicTransformation(col) == ToSnakeCase(ExpandAbbreviations(StrLower(col), 1))

\* as400_mappings of _analyze_as400_patterns
As400Mappings == <<
    <<"CUS_ID", "customer_id">>, <<"CUSTID", "customer_id">>, <<"CUSTNO", "customer_number">>,
    <<"CUSTNUM", "customer_number">>, <<"CUST#", "customer_id">>, <<"CUSTNAME", "customer_name">>,
    <<"CUSTNAM", "customer_name">>, <<"CUSTNM", "customer_name">>, <<"NME", "name">>,
    <<"EMPNO", "employee_number">>, <<"EMPNUM", "employee_number">>, <<"EMP#", "employee_id">>,
    <<"EMPNAME", "employee_name">>, <<"EMPNAM", "employee_name">>, <<"EMPNM", "employee_name">>,
    <<"ADDR1", "address_line_1">>, <<"ADDR2", "address_line_2">>, <<"STREET", "street_address">>,
    <<"CITY", "city">>, <<"STATE", "state">>, <<"ZIP", "zip_code">>,
    <<"ZIPCODE", "zip_code">>, <<"POSTAL", "postal_code">>, <<"COUNTRY", "country">>,
    <<"CREDITLMT", "credit_limit">>, <<"BALANCE", "account_balance">>, <<"AMT", "amount">>,
    <<"AMOUNT", "amount">>, <<"PRICE", "price">>, <<"HIREDATE", "hire_date">>,
    <<"CREATEDT", "create_date">>, <<"MODDT", "modify_date">>, <<"SHIPDT", "ship_date">>,
    <<"ORDERDT", "order_date">>, <<"PARTNO", "part_number">>, <<"ITEMNO", "item_number">>,
    <<"PRODCD", "product_code">>, <<"SKU", "sku">>, <<"QTY", "quantity">>,
    <<"DESC", "description">>, <<"DESCR", "description">>, <<"E-MAIL", "email">>,
    <<"EMAIL", "email">>, <<"PHONE", "phone_number">>, <<"DEPT", "department">>,
    <<"STATUS", "status">>, <<"TYPE", "type">>, <<"CODE", "code">>,
    <<"FLAG", "flag">>, <<"ACTIVE", "is_active">>, <<"INACTIVE", "is_inactive">> >>

\* AIService._analyze_as400_patterns
AnalyzeAs400Patterns(col) ==
    LET col_upper == StrUpper(col)
        ks == {k \in 1..Len(As400Mappings) : As400Mappings[k][1] = col_upper}
    IN  IF ks = {} THEN ToSnakeCase(col) ELSE As400Mappings[Min(ks)][2]

(***************************************************************************)
(* The inputs of the model.                                                *)
(***************************************************************************)

\* the widest table an ingestion is given
MaxCols == 2

\* header cells as the parsers hand them over
Headers == {"CUSTNO", "CUSTNUM", "1ST", "Unit Cost", ""}

\* the non-null cells of a column, as strings
Samples == {<< >>, << " " >>, << "12", "7" >>}

\* texts the generative capability answers with, besides an echo of the name it was given
GenTexts == {"order_sum"}

\* the ingestions in flight at once, each calling modernize_column_name on the shared
\* ai_service
MaxCallers == 2

\* the longest byte buffer an upload is read into
MaxBytes == 3

\* capacity of the lru_cache around modernize_column_name; the source has maxsize=1024,
\* the model a capacity small enough for its names to fill
CacheMaxSize == 2

(***************************************************************************)
(* The state of the process.                                               *)
(***************************************************************************)
VARIABLES
    has_transformers,    \* AIService.modernizer and AIService.has_transformers
    cache,               \* lru_cache of modernize_column_name, least recently used first
    pc,                  \* position of the ingestion: idle, loop, generating, done, failed
    status,              \* HTTP status of the last ingestion that ended (0: none yet)
    ncols,               \* len(df.columns) of the table being renamed
    modernized_columns,  \* the list _modernize_column_names builds, df.columns at the end
    res,                 \* the resolution of the current or last column
    probe,               \* history: one earlier resolution, kept to compare later ones with
    inflight,            \* concurrent callers of modernize_column_name, one record each
    decoding,            \* safe_decode: the bytes read, what chardet said, the result
    parsing,             \* process_file from the decoded text to the table it renames
    resolution,          \* the last call of modernize_column_name made on its own
    analysis             \* the table the router analyses, its metrics and recommendations

\* the variables the sequential ingestion leaves alone
others == << inflight, decoding, parsing, resolution, analysis >>

vars == << has_transformers, cache, pc, status, ncols, modernized_columns, res, probe,
           others >>

Stages == {"cache", "dictionary", "content", "generative", "heuristic", "fallback"}

NoRes == [orig |-> "", name |-> "", stage |-> "none", gen_calls |-> 0,
          gen_text |-> "", gen_raised |-> FALSE, rejected |-> {},
          known |-> FALSE, prev |-> ""]

NoProbe == [orig |-> "", name |-> "", set |-> FALSE]

\* the callers of the one ai_service that are in flight together
Callers == 1..MaxCallers

\* no file has been handed to process_file yet
NoParsing == [phase |-> "idle", ext |-> "", text |-> << >>, sniffed |-> "none",
              exhausted |-> FALSE, status |-> 0, detail |-> "",
              original_columns |-> << >>, routes |-> << >>, stages |-> << >>,
              modernized_columns |-> << >>,
              inference_prompts |-> 0,
              df |-> [raised |-> TRUE, strategy |-> "", delimiter |-> "",
                      columns |-> << >>, rows |-> << >>]]

\* no upload has been read yet
NoDecoding == [phase |-> "idle", raw_bytes |-> << >>, detect |-> "", raised |-> FALSE,
               text |-> << >>]

\* modernize_column_name has not been called on its own yet
NoResolution == [col |-> "", name |-> "", stage |-> "none"]

\* a caller that has not called yet
NoCall == [pc |-> "idle", orig |-> "", name |-> "", gen_raised |-> FALSE]

\* lru_cache: the position of a key, 0 when absent
CachePos(c, col) ==
    IF \E k \in 1..Len(c) : c[k].col = col
    THEN CHOOSE k \in 1..Len(c) : c[k].col = col
    ELSE 0

\* lru_cache hit: the entry becomes the most recently used
CacheTouch(c, k) == SubSeq(c, 1, k - 1) \o SubSeq(c, k + 1, Len(c)) \o << c[k] >>

\* lru_cache miss: the result is stored, the least recently used entry leaves a full cache
CacheInsert(c, col, name) ==
    LET e == [col |-> col, name |-> name]
    IN  IF Len(c) >= CacheMaxSize THEN Tail(c) \o << e >> ELSE c \o << e >>

(***************************************************************************)
(* AIService: content inference and the rename pipeline.                   *)
(***************************************************************************)

\* column_data[:100] of predict_column_name_from_data
SampleLimit == 100

\* [str(d).strip() for d in column_data[:100] if d is not None and str(d).strip()]
RECURSIVE SampleOf(_)
SampleOf(data) ==
    IF data = << >> THEN << >>
    ELSE IF Strip(Head(data)) = "" THEN SampleOf(Tail(data))
    ELSE << Strip(Head(data)) >> \o SampleOf(Tail(data))

\* AIService._pattern_based_prediction: the list of patterns is built first, and
\* re.compile(r'^\+?[\d\s-()]{7,20}$') raises re.error (bad character range \s-( ),
\* so the call raises for every sample before any value is classified
PatternBasedPrediction(sample, col_index) == [raised |-> TRUE, name |-> ""]

\* AIService.predict_column_name_from_data: nothing around the pattern call catches, so
\* what follows it (the test of the pattern result, the generative branch) is not reached;
\* gen_calls counts the calls of self.modernizer made on the way
PredictColumnNameFromData(data, col_index) ==
    IF data = << >>
    THEN [raised |-> FALSE, name |-> "column_" \o IntToStr(col_index), gen_calls |-> 0]
    ELSE LET sample == SampleOf(SubSeq(data, 1, IF Len(data) < SampleLimit THEN Len(data) ELSE SampleLimit))
             pattern_result == PatternBasedPrediction(sample, col_index)
         IN  IF sample = << >>
             THEN [raised |-> FALSE, name |-> "data_column_" \o IntToStr(col_index),
                   gen_calls |-> 0]
             ELSE [raised |-> pattern_result.raised, name |-> pattern_result.name,
                   gen_calls |-> 0]

\* the test of the first stage with its comparison inverted (== for !=)
DictionaryTriedInverted(original_col) ==
    AnalyzeAs400Patterns(original_col) = ToSnakeCase(original_col)

\* modernize_column_name, first stage: is the dictionary candidate put to the validator
DictionaryTried(original_col) ==
    AnalyzeAs400Patterns(original_col) # ToSnakeCase(original_col)

\* modernize_column_name, first stage: the dictionary candidate is returned
DictionaryAccepts(original_col) ==
    /\ DictionaryTried(original_col)
    /\ ValidateColumnName(AnalyzeAs400Patterns(original_col), original_col)

\* modernize_column_name, generative stage: the cleaned text is returned
GenerativeAccepts(generated_text, original_col) ==
    /\ CleanColumnName(generated_text) # ""
    /\ ValidateColumnName(CleanColumnName(generated_text), original_col)

\* modernize_column_name, last two stages: the heuristic candidate if valid, else the slug
HeuristicAccepts(original_col) ==
    ValidateColumnName(HeuristicTransformation(original_col), original_col)

HeuristicOrSlug(original_col) ==
    IF HeuristicAccepts(original_col)
    THEN [name |-> HeuristicTransformation(original_col), stage |-> "heuristic", rejected |-> {}]
    ELSE [name |-> ToSnakeCase(original_col), stage |-> "fallback",
          rejected |-> {HeuristicTransformation(original_col)}]

\* the candidates the validator turned down in the dictionary stage
DictionaryRejected(original_col) ==
    IF DictionaryTried(original_col) /\ ~DictionaryAccepts(original_col)
    THEN {AnalyzeAs400Patterns(original_col)} ELSE {}

\* the candidates the validator turned down in the generative stage
GenerativeRejected(generated_text, original_col) ==
    IF CleanColumnName(generated_text) # "" /\ ~GenerativeAccepts(generated_text, original_col)
    THEN {CleanColumnName(generated_text)} ELSE {}

\* the headers that can reach modernize_column_name
OriginalNames == {Strip(c) : c \in Headers} \ {""}

\* the stages of modernize_column_name for each of these names, worked out once
DictionaryStage ==
    [col \in OriginalNames |->
        [accepts |-> DictionaryAccepts(col),
         name |-> AnalyzeAs400Patterns(col),
         rejected |-> DictionaryRejected(col)]]

GenerativeStage ==
    [col \in OriginalNames |->
        [text \in GenTexts \cup {col} |->
            [accepts |-> GenerativeAccepts(text, col),
             name |-> CleanColumnName(text),
             rejected |-> GenerativeRejected(text, col)]]]

LateStages == [col \in OriginalNames |-> HeuristicOrSlug(col)]

(***************************************************************************)
(* FileProcessingService: process_file and _modernize_column_names.        *)
(***************************************************************************)

\* original_col.lower().startswith(('unnamed', 'col_', 'empty')) or not original_col
IsPlaceholder(original_col) ==
    \/ original_col = ""
    \/ \E p \in {"unnamed", "col_", "empty"} : StartsWith(StrLower(original_col), p)

\* data_quality before analyze_data_quality has run; also the dictionary it returns for
\* an empty table, read with the defaults of generate_data_recommendations
\* (.get('missing_values', {}), .get('unique_counts', {}), .get('quality_score', 0))
NoQuality == [missing_values |-> << >>, unique_counts |-> << >>, quality_score |-> 0]

\* no table has reached the analysis yet
NoAnalysis ==
    [phase |-> "none", df |-> [rows |-> 0, columns |-> << >>, profile |-> << >>],
     data_quality |-> NoQuality, recommendations |-> << >>]

\* process_file: str(c) if str(c).strip() != "" else f"col_{i}"
TemporaryColumn(c, i) == IF Strip(c) # "" THEN c ELSE "col_" \o IntToStr(i)

TypeOK ==
    /\ has_transformers \in BOOLEAN
    /\ pc \in {"idle", "loop", "generating", "done", "failed"}
    /\ status \in {0, 200, 500}
    /\ Len(cache) <= CacheMaxSize
    /\ ncols \in 0..MaxCols
    /\ Len(modernized_columns) <= ncols
    /\ res.stage \in Stages \cup {"none", "pending", "raised"}
    /\ \A w \in Callers :
           inflight[w].pc \in {"idle", "generating", "storing", "returned"}
    /\ decoding.phase \in {"idle", "read", "decoded"}
    /\ parsing.phase \in {"idle", "received", "parsed", "table", "returned", "failed"}
    /\ parsing.status \in {0, 200, 400, 500}
    /\ resolution.stage \in Stages \cup {"none", "blank"}
    /\ analysis.phase \in {"none", "table", "analyzed", "recommended"}

\* AIService.__init__ / _load_ai_model decide once whether the capability is there
Init ==
    /\ has_transformers \in BOOLEAN
    /\ cache = << >>
    /\ pc = "idle"
    /\ status = 0
    /\ ncols = 0
    /\ modernized_columns = << >>
    /\ res = NoRes
    /\ probe = NoProbe
    /\ inflight = [w \in Callers |-> NoCall]
    /\ decoding = NoDecoding
    /\ parsing = NoParsing
    /\ resolution = NoResolution
    /\ analysis = NoAnalysis

\* the 0-based index of the column the loop is at
CurIndex == Len(modernized_columns)

\* process_file up to the call of _modernize_column_names, for a parsed table that is not
\* empty; the header and the cells of a column are drawn when the loop reads them
ProcessFile ==
    /\ pc \in {"idle", "done", "failed"}
    /\ ncols' \in 1..MaxCols
    /\ modernized_columns' = << >>
    /\ pc' = "loop"
    /\ res' = NoRes
    /\ UNCHANGED << has_transformers, cache, status, probe, others >>

\* _modernize_column_names, the end of one iteration: the final validation, the append and,
\* after the last column, df.columns = modernized_columns and the return of process_file
Finish(r) ==
    LET new_name == IF r.name = "" \/ Len(r.name) < MinNameLen
                    THEN "column_" \o IntToStr(CurIndex) ELSE r.name
        this == [orig |-> r.orig, name |-> r.name, set |-> TRUE]
    IN  /\ modernized_columns' = Append(modernized_columns, new_name)
        /\ pc' = IF CurIndex + 1 = ncols THEN "done" ELSE "loop"
        /\ status' = IF CurIndex + 1 = ncols THEN 200 ELSE status
        /\ res' = [r EXCEPT !.known = probe.set /\ probe.orig = r.orig,
                            !.prev = IF probe.set /\ probe.orig = r.orig THEN probe.name ELSE ""]
        /\ probe' \in (IF probe.set THEN {probe} ELSE {probe, this})

\* df.dropna(how='all') has run before the loop: every row of the table has a cell that
\* is not null, so the columns of the table are not all without a non-null cell; the
\* columns so far had none when each got the name column_<index> of an empty column
NoCellSoFar ==
    \A k \in 1..Len(modernized_columns) :
        modernized_columns[k] = "column_" \o IntToStr(k - 1)

\* a blank or placeholder header: predict_column_name_from_data; an exception leaves
\* _modernize_column_names and process_file turns it into HTTP 500
InferColumn ==
    /\ pc = "loop"
    /\ \E c \in Headers, data \in Samples :
         LET original_col == Strip(TemporaryColumn(c, CurIndex))
             p == PredictColumnNameFromData(data, CurIndex)
         IN  /\ IsPlaceholder(original_col)
             /\ (data = << >> /\ CurIndex + 1 = ncols) => ~NoCellSoFar
             /\ IF p.raised
                THEN /\ pc' = "failed"
                     /\ status' = 500
                     /\ res' = [NoRes EXCEPT !.orig = original_col, !.stage = "raised"]
                     /\ UNCHANGED << modernized_columns, probe >>
                ELSE Finish([NoRes EXCEPT !.orig = original_col, !.name = p.name,
                                          !.stage = "content"])
    /\ UNCHANGED << has_transformers, cache, ncols, others >>

\* any other header: modernize_column_name behind its lru_cache, up to its return or up
\* to the call of the generative capability; col is not blank here, so the
\* unknown_column return is not taken
RenameColumn ==
    /\ pc = "loop"
    /\ \E c \in Headers :
         LET col == Strip(TemporaryColumn(c, CurIndex))
             k == CachePos(cache, col)
             r == [NoRes EXCEPT !.orig = col]
         IN  /\ ~IsPlaceholder(col)
             /\ IF k > 0
                THEN /\ cache' = CacheTouch(cache, k)
                     /\ Finish([r EXCEPT !.name = cache[k].name, !.stage = "cache"])
                ELSE IF DictionaryStage[col].accepts
                THEN /\ cache' = CacheInsert(cache, col, DictionaryStage[col].name)
                     /\ Finish([r EXCEPT !.name = DictionaryStage[col].name,
                                         !.stage = "dictionary"])
                ELSE IF has_transformers
                THEN /\ pc' = "generating"
                     /\ res' = [r EXCEPT !.stage = "pending", !.gen_calls = 1,
                                         !.rejected = DictionaryStage[col].rejected]
                     /\ UNCHANGED << cache, status, modernized_columns, probe >>
                ELSE /\ cache' = CacheInsert(cache, col, LateStages[col].name)
                     /\ Finish([r EXCEPT !.name = LateStages[col].name,
                                         !.stage = LateStages[col].stage,
                                         !.rejected = DictionaryStage[col].rejected
                                                          \cup LateStages[col].rejected])
    /\ UNCHANGED << has_transformers, ncols, others >>

\* self.modernizer(prompt, ...) returns a text: cleaned, validated, else the later stages
GenerativeReturns ==
    /\ pc = "generating"
    /\ \E text \in GenTexts \cup {res.orig} :
         LET col == res.orig
             g == GenerativeStage[col][text]
             h == LateStages[col]
             r == [res EXCEPT !.gen_text = text, !.rejected = res.rejected \cup g.rejected]
         IN  IF g.accepts
             THEN /\ cache' = CacheInsert(cache, col, g.name)
                  /\ Finish([r EXCEPT !.name = g.name, !.stage = "generative"])
             ELSE /\ cache' = CacheInsert(cache, col, h.name)
                  /\ Finish([r EXCEPT !.name = h.name, !.stage = h.stage,
                                      !.rejected = r.rejected \cup h.rejected])
    /\ UNCHANGED << has_transformers, ncols, others >>

\* self.modernizer(prompt, ...) raises: the except clause logs, the later stages run
GenerativeRaises ==
    /\ pc = "generating"
    /\ LET col == res.orig
           h == LateStages[col]
       IN  /\ cache' = CacheInsert(cache, col, h.name)
           /\ Finish([res EXCEPT !.name = h.name, !.stage = h.stage, !.gen_raised = TRUE,
                                 !.rejected = res.rejected \cup h.rejected])
    /\ UNCHANGED << has_transformers, ncols, others >>

Next ==
    \/ ProcessFile
    \/ InferColumn
    \/ RenameColumn
    \/ GenerativeReturns
    \/ GenerativeRaises

Spec == Init /\ [][Next]_vars

\* the first ingestion of the process
ProcessFirstFile == pc = "idle" /\ ProcessFile

NextFirstFile ==
    \/ ProcessFirstFile
    \/ InferColumn
    \/ RenameColumn
    \/ GenerativeReturns
    \/ GenerativeRaises

\* one ingestion, in which the steps of the process itself are taken when they can be;
\* nothing in the code makes the call of the generative capability come back
FairSpec == Init /\ [][NextFirstFile]_vars /\ WF_vars(InferColumn) /\ WF_vars(RenameColumn)

(***************************************************************************)
(* Several ingestions in flight on the one ai_service.  A call of          *)
(* modernize_column_name goes through the wrapper of lru_cache: a lookup   *)
(* under the lock of the cache, on a miss the body of the function outside *)
(* the lock, then the store under the lock again.  A caller can be         *)
(* overtaken between these steps and while the generative capability runs. *)
(***************************************************************************)

\* the names the body of modernize_column_name can return for a name
PipelineNames ==
    [ht \in BOOLEAN |-> [col \in OriginalNames |->
        IF DictionaryStage[col].accepts THEN {DictionaryStage[col].name}
        ELSE IF ht
        THEN {IF GenerativeStage[col][text].accepts
              THEN GenerativeStage[col][text].name
              ELSE LateStages[col].name : text \in GenTexts \cup {col}}
                 \cup {LateStages[col].name}
        ELSE {LateStages[col].name}]]

\* lru_cache after the body has returned: nothing is stored when the key was added
\* while the lock was released
CacheStoreNoRecheck(c, col, name) == CacheInsert(c, col, name)

CacheStore(c, col, name) ==
    IF CachePos(c, col) > 0 THEN c ELSE CacheInsert(c, col, name)

\* a column of an ingestion in flight reaches ai_service.modernize_column_name: a hit
\* returns the stored name, a miss runs the body up to its return or up to the call of
\* the generative capability
ConcCall(w) ==
    /\ inflight[w].pc \in {"idle", "returned"}
    /\ \E col \in OriginalNames :
         LET k == CachePos(cache, col)
             call == [NoCall EXCEPT !.orig = col]
         IN  /\ ~IsPlaceholder(col)
             /\ IF k > 0
                THEN /\ cache' = CacheTouch(cache, k)
                     /\ inflight' = [inflight EXCEPT ![w] =
                            [call EXCEPT !.pc = "returned", !.name = cache[k].name]]
                ELSE /\ cache' = cache
                     /\ inflight' = [inflight EXCEPT ![w] =
                            IF DictionaryStage[col].accepts
                            THEN [call EXCEPT !.pc = "storing",
                                              !.name = DictionaryStage[col].name]
                            ELSE IF has_transformers
                            THEN [call EXCEPT !.pc = "generating"]
                            ELSE [call EXCEPT !.pc = "storing",
                                              !.name = LateStages[col].name]]
    /\ UNCHANGED << has_transformers, pc, status, ncols, modernized_columns, res, probe,
                    decoding, parsing, resolution, analysis >>

\* the generative capability answers a caller: the body returns the generated name or
\* that of the later stages
ConcGenerativeReturns(w) ==
    /\ inflight[w].pc = "generating"
    /\ \E text \in GenTexts \cup {inflight[w].orig} :
         LET g == GenerativeStage[inflight[w].orig][text]
         IN  inflight' = [inflight EXCEPT ![w].pc = "storing",
                             ![w].name = IF g.accepts THEN g.name
                                         ELSE LateStages[inflight[w].orig].name]
    /\ UNCHANGED << has_transformers, cache, pc, status, ncols, modernized_columns, res,
                    probe, decoding, parsing, resolution, analysis >>

\* the generative capability raises in a caller: the body returns the name of the later
\* stages
ConcGenerativeRaises(w) ==
    /\ inflight[w].pc = "generating"
    /\ inflight' = [inflight EXCEPT ![w].pc = "storing", ![w].gen_raised = TRUE,
                        ![w].name = LateStages[inflight[w].orig].name]
    /\ UNCHANGED << has_transformers, cache, pc, status, ncols, modernized_columns, res,
                    probe, decoding, parsing, resolution, analysis >>

\* the wrapper stores what the body returned and hands it to the caller
ConcStore(w) ==
    /\ inflight[w].pc = "storing"
    /\ cache' = CacheStore(cache, inflight[w].orig, inflight[w].name)
    /\ inflight' = [inflight EXCEPT ![w].pc = "returned"]
    /\ UNCHANGED << has_transformers, pc, status, ncols, modernized_columns, res, probe,
                    decoding, parsing, resolution, analysis >>

ConcNext ==
    \/ \E w \in Callers : ConcCall(w)
    \/ \E w \in Callers : ConcGenerativeReturns(w)
    \/ \E w \in Callers : ConcGenerativeRaises(w)
    \/ \E w \in Callers : ConcStore(w)

ConcSpec == Init /\ [][ConcNext]_vars

(***************************************************************************)
(* FileProcessingService.safe_decode.  A byte is a number, a decoded text  *)
(* a sequence of code points.                                              *)
(***************************************************************************)

\* the bytes of the uploads: A, the two bytes of the UTF-8 form of U+00E9, and 0xFF,
\* which no UTF-8 sequence holds
ByteValues == {65, 195, 169, 255}

RECURSIVE BuffersOfLen(_)
BuffersOfLen(n) ==
    IF n = 0 THEN {<< >>}
    ELSE {<< b >> \o t : b \in ByteValues, t \in BuffersOfLen(n - 1)}

ByteBuffers == UNION {BuffersOfLen(n) : n \in 0..MaxBytes}

\* what chardet.detect(raw_bytes) does: it raises, it finds no encoding (None), or it
\* names one; EUC-TW is a name of chardet for which Python has no codec
Detections == {"raises", "none", "utf-8", "ascii", "ISO-8859-1", "EUC-TW"}

\* the encodings bytes.decode finds a codec for
Codecs == {"utf-8", "ascii", "ISO-8859-1"}

\* bytes.decode("utf-8", errors="ignore") on sequences of one and two bytes: a lead byte
\* without its continuation byte, a stray continuation byte and 0xFF are dropped
RECURSIVE Utf8Ignore(_)
Utf8Ignore(b) ==
    IF b = << >> THEN << >>
    ELSE IF Head(b) < 128 THEN << Head(b) >> \o Utf8Ignore(Tail(b))
    ELSE IF /\ Head(b) \in 194..223
            /\ Len(b) >= 2
            /\ b[2] \in 128..191
    THEN << (Head(b) - 192) * 64 + (b[2] - 128) >> \o Utf8Ignore(Tail(Tail(b)))
    ELSE Utf8Ignore(Tail(b))

\* bytes.decode("ascii", errors="ignore")
RECURSIVE AsciiIgnore(_)
AsciiIgnore(b) ==
    IF b = << >> THEN << >>
    ELSE IF Head(b) < 128 THEN << Head(b) >> \o AsciiIgnore(Tail(b))
    ELSE AsciiIgnore(Tail(b))

\* raw_bytes.decode(enc, errors="ignore") for an encoding that has a codec
DecodeIgnore(b, enc) ==
    IF enc = "utf-8" THEN Utf8Ignore(b)
    ELSE IF enc = "ascii" THEN AsciiIgnore(b)
    ELSE b

\* safe_decode without its except clause
SafeDecodeNoExcept(b, detect) ==
    LET enc == IF detect = "none" THEN "utf-8" ELSE detect
    IN  IF detect = "raises" \/ enc \notin Codecs
        THEN [raised |-> TRUE, text |-> << >>]
        ELSE [raised |-> FALSE, text |-> DecodeIgnore(b, enc)]

\* FileProcessingService.safe_decode
SafeDecode(b, detect) ==
    LET enc == IF detect = "none" THEN "utf-8" ELSE detect
    IN  IF detect = "raises" \/ enc \notin Codecs
        THEN [raised |-> FALSE, text |-> Utf8Ignore(b)]
        ELSE [raised |-> FALSE, text |-> DecodeIgnore(b, enc)]

\* raw = await file.read()
ReadUpload ==
    /\ decoding.phase \in {"idle", "decoded"}
    /\ \E b \in ByteBuffers :
         decoding' = [NoDecoding EXCEPT !.phase = "read", !.raw_bytes = b]
    /\ UNCHANGED << has_transformers, cache, pc, status, ncols, modernized_columns, res,
                    probe, inflight, parsing, resolution, analysis >>

\* text = self.safe_decode(raw)
DecodeUpload ==
    /\ decoding.phase = "read"
    /\ \E detect \in Detections :
         LET d == SafeDecode(decoding.raw_bytes, detect)
         IN  decoding' = [decoding EXCEPT !.phase = "decoded", !.detect = detect,
                                          !.raised = d.raised, !.text = d.text]
    /\ UNCHANGED << has_transformers, cache, pc, status, ncols, modernized_columns, res,
                    probe, inflight, parsing, resolution, analysis >>

DecodeNext ==
    \/ ReadUpload
    \/ DecodeUpload

DecodeSpec == Init /\ [][DecodeNext]_vars

(***************************************************************************)
(* FileProcessingService: format detection.  A text is the sequence of its *)
(* lines, a table a record of its column names and its rows, a row a       *)
(* sequence of cells.  The readers of pandas are modelled on texts without *)
(* quotes, as its python engine and its fixed-width reader treat them.     *)
(***************************************************************************)

\* the null cell of pandas; no text of the model holds the character <
NaN == "<NaN>"

\* a reader or a parse strategy raised
Raised == [raised |-> TRUE, strategy |-> "", delimiter |-> "", columns |-> << >>,
           rows |-> << >>]

\* pd.DataFrame(rows, columns=columns), with the strategy it comes from
Table(strategy, columns, rows) ==
    [raised |-> FALSE, strategy |-> strategy, delimiter |-> "", columns |-> columns,
     rows |-> rows]

\* df.shape[1] > 1 and len(df) > 0
Usable(t) == ~t.raised /\ Len(t.columns) > 1 /\ Len(t.rows) > 0

AllIn(s, class) == \A i \in 1..Len(s) : CharAt(s, i) \in class

\* not line.strip()
IsBlank(line) == Strip(line) = ""

\* [line for line in ... if line.strip()]
NonBlank(lines) == SelectSeq(lines, LAMBDA line : ~IsBlank(line))

\* re.match(r'^[-=\s]+$', line.strip())
IsSeparatorLine(line) ==
    Strip(line) # "" /\ AllIn(Strip(line), {"-", "="} \cup SpaceSet)

\* re.search(r'[A-Za-z]', line)
HasLetter(line) == \E i \in 1..Len(line) : CharAt(line, i) \in (LowerSet \cup UpperSet)

\* line.strip().startswith(('Page', 'Date', 'Time'))
IsPageFurniture(line) == \E p \in {"Page", "Date", "Time"} : StartsWith(Strip(line), p)

\* re.search(r'^[A-Z][A-Z0-9\s]*$', line.strip())
IsUpperCaseLine(line) ==
    /\ Strip(line) # ""
    /\ Head(Strip(line)) \in UpperSet
    /\ AllIn(Tail(Strip(line)), UpperSet \cup DigitSet \cup SpaceSet)

\* the length of the header pattern's tail, {10,}
HeaderPatternTail == 10

\* re.search(r'^[A-Z][A-Z0-9\s]{10,}', line)
HasHeaderPattern(line) ==
    /\ Len(line) >= 1 + HeaderPatternTail
    /\ Head(line) \in UpperSet
    /\ AllIn(SubSeq(line, 2, 1 + HeaderPatternTail), UpperSet \cup DigitSet \cup SpaceSet)

\* the character loop of detect_fixed_width_structure from 0-based position pos on:
\* every maximal run without whitespace, with the position it starts at and the
\* position after its end
RECURSIVE HeaderWords(_, _)
HeaderWords(line, pos) ==
    IF pos >= Len(line) THEN << >>
    ELSE IF CharAt(line, pos + 1) \in SpaceSet THEN HeaderWords(line, pos + 1)
    ELSE LET end == Min({e \in (pos + 1)..Len(line) :
                            e = Len(line) \/ CharAt(line, e + 1) \in SpaceSet})
         IN  << [start |-> pos, end |-> end, name |-> SubSeq(line, pos + 1, end)] >>
                 \o HeaderWords(line, end)

\* the lines of lines[:5] and the lines[:3], lines[:10] of the detection
FirstLines(lines, n) == SubSeq(lines, 1, IF Len(lines) < n THEN Len(lines) ELSE n)

\* FileProcessingService.detect_fixed_width_structure; << >> stands for None
DetectFixedWidthStructure(lines) ==
    LET first == FirstLines(lines, 5)
        candidates == {i \in 1..Len(first) :
                          /\ ~IsBlank(first[i])
                          /\ ~IsSeparatorLine(first[i])
                          /\ HasLetter(first[i])
                          /\ ~IsPageFurniture(first[i])}
    IN  IF Len(lines) < 3 \/ candidates = {} THEN << >>
        ELSE LET words == HeaderWords(first[Min(candidates)], 0)
             IN  IF Len(words) > 1 THEN words ELSE << >>

\* content_str.strip().split('\n') without its empty lines: the first line has lost its
\* leading whitespace, the last its trailing whitespace
StrippedLines(text) ==
    LET lines == NonBlank(text)
    IN  [i \in 1..Len(lines) |->
            LET l == IF i = 1 THEN LStrip(lines[i], SpaceSet) ELSE lines[i]
            IN  IF i = Len(lines) THEN RStrip(l, SpaceSet) ELSE l]

\* parse_fixed_width_data: the loop that looks for the first line of data
DataStart(lines) ==
    LET stops == {i \in 0..(Len(lines) - 1) :
                     \/ IsSeparatorLine(lines[i + 1])
                     \/ (i > 0 /\ ~IsUpperCaseLine(lines[i + 1]))}
    IN  IF stops = {} THEN 0
        ELSE IF IsSeparatorLine(lines[Min(stops) + 1]) THEN Min(stops) + 1
        ELSE Min(stops)

\* line[start:min(end, len(line))].strip() if start < len(line), else ""
SliceCell(line, start, end) ==
    IF start < Len(line)
    THEN Strip(SubSeq(line, start + 1, IF end < Len(line) THEN end ELSE Len(line)))
    ELSE ""

\* the row parse_fixed_width_data cuts out of a line
FixedRow(line, structure) ==
    [j \in 1..Len(structure) |-> SliceCell(line, structure[j].start, structure[j].end)]

\* parse_fixed_width_data: the rows from the detected structure
FixedRows(lines, structure) ==
    LET from == IF DataStart(lines) > 1 THEN DataStart(lines) ELSE 1
        kept == SelectSeq(SubSeq(lines, from + 1, Len(lines)),
                          LAMBDA line : /\ ~IsBlank(line)
                                        /\ ~IsSeparatorLine(line)
                                        /\ \E j \in 1..Len(structure) :
                                               FixedRow(line, structure)[j] # "")
    IN  [k \in 1..Len(kept) |-> FixedRow(kept[k], structure)]

\* a cell of a reader of pandas: the empty field is null
NaCell(c) == IF c = "" THEN NaN ELSE c

\* the column names pandas gives a header row: an empty field is Unnamed: <position>
PandasColumns(header) ==
    [i \in 1..Len(header) |->
        IF header[i] = "" THEN "Unnamed: " \o IntToStr(i - 1) ELSE header[i]]

\* a line with an x at every position from p to width at which some line has a character
\* that is not whitespace, and a blank elsewhere
RECURSIVE OccupiedFrom(_, _, _)
OccupiedFrom(lines, p, width) ==
    IF p > width THEN ""
    ELSE (IF \E i \in 1..Len(lines) :
                p <= Len(lines[i]) /\ CharAt(lines[i], p) \notin SpaceSet
          THEN "x" ELSE " ") \o OccupiedFrom(lines, p + 1, width)

\* pd.read_fwf(io.StringIO(content_str)): the columns are the maximal runs of positions at
\* which some line has a character that is not whitespace, the first line is the header
ReadFwf(text) ==
    LET lines == NonBlank(text)
        width == IF lines = << >> THEN 0
                 ELSE CHOOSE n \in {Len(lines[i]) : i \in 1..Len(lines)} :
                          \A i \in 1..Len(lines) : Len(lines[i]) <= n
        colspecs == HeaderWords(OccupiedFrom(lines, 1, width), 0)
        cut(line) == [j \in 1..Len(colspecs) |->
                         SliceCell(line, colspecs[j].start, colspecs[j].end)]
    IN  IF lines = << >> THEN Raised
        ELSE Table("fwf", PandasColumns(cut(lines[1])),
                   [k \in 1..(Len(lines) - 1) |->
                       [j \in 1..Len(colspecs) |-> NaCell(cut(lines[k + 1])[j])]])

\* FileProcessingService.parse_fixed_width_data
ParseFixedWidthData(text) ==
    LET lines == StrippedLines(text)
        structure == DetectFixedWidthStructure(lines)
        data_rows == FixedRows(lines, structure)
    IN  IF Len(lines) < 2 THEN Raised
        ELSE IF structure # << >> /\ data_rows # << >>
        THEN Table("structural", [j \in 1..Len(structure) |-> structure[j].name], data_rows)
        ELSE IF Usable(ReadFwf(text)) THEN ReadFwf(text)
        ELSE Raised

\* the fields of a line for a delimiter of one character
RECURSIVE SplitOn(_, _)
SplitOn(s, sep) ==
    IF \E i \in 1..Len(s) : CharAt(s, i) = sep
    THEN LET i == Min({k \in 1..Len(s) : CharAt(s, k) = sep})
         IN  << SubSeq(s, 1, i - 1) >> \o SplitOn(SubSeq(s, i + 1, Len(s)), sep)
    ELSE << s >>

\* pd.read_csv(io.StringIO(content_str), sep=sep, engine="python"): empty lines and lines
\* of one blank field are skipped, the first line left is the header, a short row is
\* filled with nulls; the surplus fields of the first row of data are taken as the
\* index, and a row longer than that raises
ReadCsv(text, sep, strategy) ==
    LET records == SelectSeq([i \in 1..Len(text) |->
                                 IF text[i] = "" THEN << >> ELSE SplitOn(text[i], sep)],
                             LAMBDA f : Len(f) > 1 \/ (Len(f) = 1 /\ Strip(f[1]) # ""))
        header == Head(records)
        data == Tail(records)
        index == IF data # << >> /\ Len(data[1]) > Len(header)
                 THEN Len(data[1]) - Len(header) ELSE 0
    IN  IF records = << >> THEN Raised
        ELSE IF \E r \in 1..Len(data) : Len(data[r]) > Len(header) + index THEN Raised
        ELSE [Table(strategy, PandasColumns(header),
                    [r \in 1..Len(data) |->
                        [j \in 1..Len(header) |->
                            IF index + j <= Len(data[r]) THEN NaCell(data[r][index + j])
                            ELSE NaN]])
                EXCEPT !.delimiter = sep]

\* str.split(): the maximal runs of characters that are not whitespace
Tokens(line) == [j \in 1..Len(HeaderWords(line, 0)) |-> HeaderWords(line, 0)[j].name]

\* token.replace('.', '').replace('-', '').isdigit()
IsNumberToken(token) ==
    LET bare == SelectSeq([i \in 1..Len(token) |-> CharAt(token, i)],
                          LAMBDA c : c \notin {".", "-"})
    IN  bare # << >> /\ \A i \in 1..Len(bare) : bare[i] \in DigitSet

\* the manual parsing without tokens[:len(headers)]
ManualRowUncut(tokens, n) ==
    [j \in 1..(IF Len(tokens) < n THEN n ELSE Len(tokens)) |->
        IF j <= Len(tokens) THEN tokens[j] ELSE ""]

\* the manual parsing of a line: while len(tokens) < len(headers): tokens.append(""),
\* then tokens[:len(headers)]
ManualRow(tokens, n) == [j \in 1..n |-> IF j <= Len(tokens) THEN tokens[j] ELSE ""]

\* detect_delimiter_and_read_text, its last resort
ManualParse(lines) ==
    LET header_tokens == Tokens(lines[1])
        data_lines == Tail(lines)
    IN  IF lines = << >> THEN Raised
        ELSE IF (\E j \in 1..Len(header_tokens) : ~IsNumberToken(header_tokens[j]))
                /\ data_lines # << >>
        THEN Table("manual", header_tokens,
                   [k \in 1..Len(data_lines) |->
                       ManualRow(Tokens(data_lines[k]), Len(header_tokens))])
        ELSE Raised

\* what csv.Sniffer().sniff(sample, delimiters=",;\t|") does: it raises ("none") or it
\* names one of its four candidates, and only one that occurs in the text
Sniffed(text) ==
    {"none"} \cup {d \in {",", ";", "\t", "|"} :
                      \E i \in 1..Len(text) : \E k \in 1..Len(text[i]) :
                          CharAt(text[i], k) = d}

\* delimiters_to_try without the pipe
DelimitersToTryNoPipe == << ",", "\t", ";", " " >>

\* delimiters_to_try of detect_delimiter_and_read_text
DelimitersToTry == << ",", "\t", "|", ";", " " >>

\* has_uniform_width or has_header_pattern or has_separator_line, for at least 3 lines
LooksFixedWidth(lines) ==
    /\ Len(lines) >= 3
    /\ \/ Cardinality({Len(FirstLines(lines, 10)[i]) : i \in 1..Len(FirstLines(lines, 10))}) <= 2
       \/ \E i \in 1..Len(FirstLines(lines, 3)) : HasHeaderPattern(lines[i])
       \/ \E i \in 1..Len(FirstLines(lines, 5)) : IsSeparatorLine(lines[i])

\* FileProcessingService.detect_delimiter_and_read_text, given what the sniffer did
DetectDelimiterAndReadText(text, sniffed) ==
    LET lines == NonBlank(text)
        usable == {d \in 1..Len(DelimitersToTry) :
                      Usable(ReadCsv(text, DelimitersToTry[d], "fallback"))}
    IN  IF LooksFixedWidth(lines) /\ ~ParseFixedWidthData(text).raised
        THEN ParseFixedWidthData(text)
        ELSE IF sniffed # "none" /\ Usable(ReadCsv(text, sniffed, "sniffed"))
        THEN ReadCsv(text, sniffed, "sniffed")
        ELSE IF usable # {}
        THEN ReadCsv(text, DelimitersToTry[Min(usable)], "fallback")
        ELSE ManualParse(lines)

(***************************************************************************)
(* FileProcessingService.process_file from the decoded text to the table   *)
(* that _modernize_column_names is given.                                  *)
(***************************************************************************)

\* the hints filename.split(".")[-1] gives: a sheet, a CSV, anything else
Extensions == {"xlsx", "csv", "txt"}

\* the report of the fixed-width round trip, with data in mixed case, with a first row
\* of data in upper case, and with lines that end before the last span
ReportMixedCase == << "NAME   AGE  CITY", "Bob    25   Rome", "Al     30   Oslo" >>
ReportUpperCase == << "NAME   AGE  CITY", "BOB    25   ROME", "Al     30   Oslo" >>
ReportShortLines == << "NAME   AGE  CITY", "Bob    25", "Al" >>

ReportTexts == {ReportMixedCase, ReportUpperCase, ReportShortLines}

\* a report with a page line before a header in mixed case
ReportPageLine == << "Page    1", "Name  Age", "Bob    25" >>

\* a report printed with a left margin, and one with a value wider than its header token
\* and a character between two header tokens
ReportIndented == << "  NAME  AGE", "  Bob   25", "  Al    30" >>
ReportWideValue == << "NAME  AGE", "Robert25", "Al  x 30" >>

\* texts with the pipe as their only separator: a table, a wider table, a header alone,
\* and a table with a row longer than its header
PipeTable == << "A|B", "1|2", "3|4" >>
PipeWide == << "A|B|C", "1|2|3" >>
PipeHeaderOnly == << "A|B" >>
PipeRagged == << "A|B", "1|2", "3|4|5" >>

PipeTexts == {PipeTable, PipeWide, PipeHeaderOnly, PipeRagged}

\* the decoded texts of the uploads
Texts ==
    ReportTexts \cup PipeTexts \cup
    { << >>,
      ReportPageLine,
      ReportIndented,
      ReportWideValue,
      << "abc", "1", "2" >>,
      << "a,b", "1,2" >>,
      << "a,b", "," >>,
      << "a,b" >>,
      << "a,b", "1,2", "3,4,5" >>,
      << "x y", "1 2", "3 4 5", "6" >>,
      << "1 2", "3 4", "5 6" >>,
      << "CUSTNO  NAME", "------  ----", "100     Ann", "200     Bo" >>,
      << "EMPTYWT,QTY", ",2" >>,
      << "CUST_NO,EMP NO", "1,2" >>,
      << "a,", "1," >>,
      << "a,", "1,Ann" >>,
      << "a,", "1,AB", "2,12" >> }

\* what pd.read_excel(io.BytesIO(raw)) does with the bytes of a sheet: it raises, or it
\* returns the table of the sheet
ExcelOutcomes ==
    { Raised,
      Table("excel", << "A", "B" >>, << << "1", "2" >> >>),
      Table("excel", << "A" >>, << << "1" >> >>),
      Table("excel", << "A", "B" >>, << >>),
      Table("excel", << "A", "B" >>, << << NaN, NaN >> >>) }

\* raise HTTPException(status_code=status, detail=detail)
Fail(status_code, detail, exhausted, sniffed) ==
    parsing' = [parsing EXCEPT !.phase = "failed", !.status = status_code,
                               !.detail = detail, !.exhausted = exhausted,
                               !.sniffed = sniffed]

\* a file reaches process_file; a sheet is not read as text
ReceiveFile ==
    /\ parsing.phase \in {"idle", "table", "returned", "failed"}
    /\ \E ext \in Extensions, text \in Texts :
         /\ ext = "xlsx" => text = << >>
         /\ parsing' = [NoParsing EXCEPT !.phase = "received", !.ext = ext, !.text = text]
    /\ UNCHANGED << has_transformers, cache, pc, status, ncols, modernized_columns, res,
                    probe, inflight, decoding, resolution, analysis >>

\* ext in ("xls", "xlsx"): pd.read_excel in its try
ReadExcelFile ==
    /\ parsing.phase = "received"
    /\ parsing.ext = "xlsx"
    /\ \E df \in ExcelOutcomes :
         IF df.raised THEN Fail(400, "Could not read Excel file", TRUE, "none")
         ELSE parsing' = [parsing EXCEPT !.phase = "parsed", !.df = df]
    /\ UNCHANGED << has_transformers, cache, pc, status, ncols, modernized_columns, res,
                    probe, inflight, decoding, resolution, analysis >>

\* ext == "csv": pd.read_csv, and in its except clause detect_delimiter_and_read_text,
\* whose ValueError no clause around it turns into a 400: the except Exception at the
\* end of process_file makes it a 500
ReadCsvFile ==
    /\ parsing.phase = "received"
    /\ parsing.ext = "csv"
    /\ LET direct == ReadCsv(parsing.text, ",", "direct")
       IN  IF ~direct.raised
           THEN parsing' = [parsing EXCEPT !.phase = "parsed", !.df = direct]
           ELSE \E sniffed \in Sniffed(parsing.text) :
                  LET df == DetectDelimiterAndReadText(parsing.text, sniffed)
                  IN  IF df.raised
                      THEN Fail(500, "File processing error", TRUE, sniffed)
                      ELSE parsing' = [parsing EXCEPT !.phase = "parsed", !.df = df,
                                                      !.sniffed = sniffed]
    /\ UNCHANGED << has_transformers, cache, pc, status, ncols, modernized_columns, res,
                    probe, inflight, decoding, resolution, analysis >>

\* any other hint: detect_delimiter_and_read_text in its try
ReadTextFile ==
    /\ parsing.phase = "received"
    /\ parsing.ext \notin {"xlsx", "csv"}
    /\ \E sniffed \in Sniffed(parsing.text) :
         LET df == DetectDelimiterAndReadText(parsing.text, sniffed)
         IN  IF df.raised
             THEN Fail(400, "Could not parse file", TRUE, sniffed)
             ELSE parsing' = [parsing EXCEPT !.phase = "parsed", !.df = df,
                                             !.sniffed = sniffed]
    /\ UNCHANGED << has_transformers, cache, pc, status, ncols, modernized_columns, res,
                    probe, inflight, decoding, resolution, analysis >>

\* a row df.dropna(how='all') removes
AllNull(row) == \A j \in 1..Len(row) : row[j] = NaN

\* the test of df.empty, the record of the original names, the temporary names of the
\* blank headers, df.dropna(how='all') and the second test of df.empty; the table left
\* goes to _modernize_column_names
RemoveEmptyRows ==
    /\ parsing.phase = "parsed"
    /\ LET df == parsing.df
           kept == SelectSeq(df.rows, LAMBDA row : ~AllNull(row))
       IN  IF df.rows = << >> \/ df.columns = << >>
           THEN Fail(400, "No data found in file", FALSE, parsing.sniffed)
           ELSE IF kept = << >>
           THEN Fail(400, "No valid data rows found", FALSE, parsing.sniffed)
           ELSE parsing' = [parsing EXCEPT
                               !.phase = "table",
                               !.original_columns = df.columns,
                               !.df = [df EXCEPT
                                          !.columns = [j \in 1..Len(df.columns) |->
                                                          TemporaryColumn(df.columns[j], j - 1)],
                                          !.rows = kept]]
    /\ UNCHANGED << has_transformers, cache, pc, status, ncols, modernized_columns, res,
                    probe, inflight, decoding, resolution, analysis >>

ParseNext ==
    \/ ReceiveFile
    \/ ReadExcelFile
    \/ ReadCsvFile
    \/ ReadTextFile
    \/ RemoveEmptyRows

ParseSpec == Init /\ [][ParseNext]_vars

(***************************************************************************)
(* process_file from the upload to its return, for the first upload a      *)
(* process is given: the parse above, then _modernize_column_names on the  *)
(* whole table.                                                            *)
(***************************************************************************)

\* the ways the body of modernize_column_name can return for a name that is not blank,
\* each with the stage that returns: the dictionary candidate, else with the capability
\* what the cleaned answer or the late stages give, else the late stages
ModernizeColumnName(ht, col) ==
    LET late == [name |-> HeuristicOrSlug(col).name, stage |-> HeuristicOrSlug(col).stage]
    IN  IF DictionaryAccepts(col)
        THEN {[name |-> AnalyzeAs400Patterns(col), stage |-> "dictionary"]}
        ELSE IF ht
        THEN {IF GenerativeAccepts(text, col)
              THEN [name |-> CleanColumnName(text), stage |-> "generative"]
              ELSE late : text \in GenTexts \cup {col}} \cup {late}
        ELSE {late}

\* df.iloc[:, i].dropna().astype(str).tolist(), i counted from 0
ColumnData(df, i) ==
    SelectSeq([k \in 1..Len(df.rows) |-> df.rows[k][i + 1]], LAMBDA c : c # NaN)

\* _modernize_column_names, final validation
FinalName(new_name, i) ==
    IF new_name = "" \/ Len(new_name) < MinNameLen THEN "column_" \o IntToStr(i)
    ELSE new_name

\* _modernize_column_names, one iteration for the column at index i with the cache c:
\* the branch taken, and what the call made in it can give; gen_calls counts the prompts
\* of content inference only
ResolveColumn(df, i, c, ht) ==
    LET original_col == Strip(df.columns[i + 1])
    IN  IF IsPlaceholder(original_col)
        THEN LET p == PredictColumnNameFromData(ColumnData(df, i), i)
             IN  {[raised |-> p.raised, route |-> "content", stage |-> "content",
                   cache |-> c, name |-> p.name, gen_calls |-> p.gen_calls]}
        ELSE LET k == CachePos(c, original_col)
             IN  IF k > 0
                 THEN {[raised |-> FALSE, route |-> "rename", stage |-> "cache",
                        cache |-> CacheTouch(c, k), name |-> c[k].name, gen_calls |-> 0]}
                 ELSE {[raised |-> FALSE, route |-> "rename", stage |-> r.stage,
                        cache |-> CacheInsert(c, original_col, r.name), name |-> r.name,
                        gen_calls |-> 0] :
                           r \in ModernizeColumnName(ht, original_col)}

\* the loop with each name put before the names of the columns before it
RECURSIVE ModernizeColumnsReversed(_, _, _, _)
ModernizeColumnsReversed(df, i, c, ht) ==
    IF i >= Len(df.columns)
    THEN {[raised |-> FALSE, routes |-> << >>, stages |-> << >>, cache |-> c,
           modernized_columns |-> << >>, inference_prompts |-> 0]}
    ELSE UNION {
           IF f.raised
           THEN {[raised |-> TRUE, routes |-> << f.route >>, stages |-> << >>,
                  cache |-> f.cache, modernized_columns |-> << >>,
                  inference_prompts |-> f.gen_calls]}
           ELSE {[rest EXCEPT !.routes = << f.route >> \o @,
                              !.stages = << f.stage >> \o @,
                              !.modernized_columns = @ \o << FinalName(f.name, i) >>,
                              !.inference_prompts = f.gen_calls + @] :
                    rest \in ModernizeColumnsReversed(df, i + 1, f.cache, ht)} :
           f \in ResolveColumn(df, i, c, ht)}

\* _modernize_column_names from the column at index i on: the ways the loop can end,
\* each with the branches taken, the stages that returned, the names appended and the
\* cache left
RECURSIVE ModernizeColumnsFrom(_, _, _, _)
ModernizeColumnsFrom(df, i, c, ht) ==
    IF i >= Len(df.columns)
    THEN {[raised |-> FALSE, routes |-> << >>, stages |-> << >>, cache |-> c,
           modernized_columns |-> << >>, inference_prompts |-> 0]}
    ELSE UNION {
           IF f.raised
           THEN {[raised |-> TRUE, routes |-> << f.route >>, stages |-> << >>,
                  cache |-> f.cache, modernized_columns |-> << >>,
                  inference_prompts |-> f.gen_calls]}
           ELSE {[rest EXCEPT !.routes = << f.route >> \o @,
                              !.stages = << f.stage >> \o @,
                              !.modernized_columns = << FinalName(f.name, i) >> \o @,
                              !.inference_prompts = f.gen_calls + @] :
                    rest \in ModernizeColumnsFrom(df, i + 1, f.cache, ht)} :
           f \in ResolveColumn(df, i, c, ht)}

\* process_file from _modernize_column_names to its return: df.columns becomes the list
\* of the new names, file_info records it; an exception of the resolver reaches the
\* except Exception at the end of process_file.  The JSON export only reads the table
ModernizeColumnNames ==
    /\ parsing.phase = "table"
    /\ \E o \in ModernizeColumnsFrom(parsing.df, 0, cache, has_transformers) :
         /\ cache' = o.cache
         /\ IF o.raised
            THEN parsing' = [parsing EXCEPT !.phase = "failed", !.status = 500,
                                            !.detail = "File processing error",
                                            !.routes = o.routes,
                                            !.inference_prompts = o.inference_prompts]
            ELSE parsing' = [parsing EXCEPT
                                !.phase = "returned", !.status = 200,
                                !.routes = o.routes,
                                !.stages = o.stages,
                                !.inference_prompts = o.inference_prompts,
                                !.modernized_columns = o.modernized_columns,
                                !.df = [@ EXCEPT !.columns = o.modernized_columns]]
    /\ UNCHANGED << has_transformers, pc, status, ncols, modernized_columns, res, probe,
                    inflight, decoding, resolution, analysis >>

\* the first upload of the process
ReceiveFirstFile == parsing.phase = "idle" /\ ReceiveFile

IngestNext ==
    \/ ReceiveFirstFile
    \/ ReadExcelFile
    \/ ReadCsvFile
    \/ ReadTextFile
    \/ RemoveEmptyRows
    \/ ModernizeColumnNames

IngestSpec == Init /\ [][IngestNext]_vars

(***************************************************************************)
(* modernize_column_name called on its own, as the preview of the router   *)
(* calls it with the names of a sample, for names of every kind.           *)
(***************************************************************************)

\* the names the resolver is called with: blank ones, one of punctuation only, one with
\* underscores at its ends, one with a run of blanks, and keys of the dictionary
Names == {"", " ", "--", "_x_", "Ord  Tot", "QTY", "CUSTNAME", "ADDR1", "EMPNO"}

\* the body of modernize_column_name for each of these names: unknown_column for a blank
\* one, else the stages on the stripped name
ResolverTable ==
    [ht \in BOOLEAN |-> [col \in Names |->
        IF Strip(col) = "" THEN {[name |-> "unknown_column", stage |-> "blank"]}
        ELSE ModernizeColumnName(ht, Strip(col))]]

\* ai_service.modernize_column_name(col) for a name the lru_cache holds; its key is col
\* as it is given
ResolverHit ==
    /\ \E col \in Names :
         LET k == CachePos(cache, col)
         IN  /\ k > 0
             /\ cache' = CacheTouch(cache, k)
             /\ resolution' = [col |-> col, name |-> cache[k].name, stage |-> "cache"]
    /\ UNCHANGED << has_transformers, pc, status, ncols, modernized_columns, res, probe,
                    inflight, decoding, parsing, analysis >>

\* ai_service.modernize_column_name(col) for a name the lru_cache does not hold: the
\* body runs and its result is stored
ResolverMiss ==
    /\ \E col \in Names :
         /\ CachePos(cache, col) = 0
         /\ \E r \in ResolverTable[has_transformers][col] :
              /\ cache' = CacheInsert(cache, col, r.name)
              /\ resolution' = [col |-> col, name |-> r.name, stage |-> r.stage]
    /\ UNCHANGED << has_transformers, pc, status, ncols, modernized_columns, res, probe,
                    inflight, decoding, parsing, analysis >>

ResolverNext ==
    \/ ResolverHit
    \/ ResolverMiss

ResolverSpec == Init /\ [][ResolverNext]_vars

(***************************************************************************)
(* The analysis of the renamed table: analyze_data_quality and             *)
(* generate_data_recommendations, as the router calls them one after the   *)
(* other.  A table is kept by what the two functions read of it: its       *)
(* number of rows, its column names and, for each column, the number of    *)
(* missing cells, whether its dtype is numeric and how many distinct       *)
(* values it has.  Scores are kept in hundredths.                          *)
(***************************************************************************)

\* quality_score >= 95 and quality_score >= 85
ExcellentScore == 95
GoodScore == 85

\* count > len(df) * 0.1, as count * 10 > len(df)
MissingShare == 10

\* unique_ratio > 0.95 and len(df) > 100
CardinalityShare == 95
CardinalityRows == 100

\* the widest table analysed
MaxAnalysedCols == 2

\* len(df) of the tables analysed: one row, a few, more than CardinalityRows, and enough
\* for one cell to weigh less than a hundredth of a point
RowCounts == {1, 20, 200, 20001}

\* the names of the columns, the first n of one of these lists
ColumnNameLists == {<< "customer_id", "city", "order_number" >>, << "city", "state", "qty" >>}

\* the numbers of missing cells a column of the table can have
MissingCounts(rows) ==
    {m \in {0, 1, rows \div MissingShare, rows \div MissingShare + 1, rows \div 2} : m <= rows}

\* a column is numeric with all its values distinct, text with all its values distinct,
\* or text with one value throughout
ColumnKinds == {"numeric", "text", "constant"}

\* df.isnull().sum().sum()
RECURSIVE TotalNulls(_)
TotalNulls(profile) ==
    IF profile = << >> THEN 0 ELSE Head(profile).missing + TotalNulls(Tail(profile))

\* the tables that reach the analysis: process_file has dropped the rows with no value
\* at all (dropna(how='all')), so at least one cell of every row is present
TableProfiles ==
    UNION {{[rows |-> rows, columns |-> SubSeq(names, 1, n), profile |-> p] :
               names \in ColumnNameLists,
               p \in {q \in [1..n -> [missing : MissingCounts(rows), kind : ColumnKinds]] :
                         TotalNulls(q) <= rows * (n - 1)}} :
           rows \in RowCounts, n \in 1..MaxAnalysedCols}

\* df[col].nunique(): the distinct values of a column, missing cells left out
NUnique(df, k) ==
    LET present == df.rows - df.profile[k].missing
    IN  IF df.profile[k].kind = "constant" /\ present > 0 THEN 1 ELSE present

\* round((1 - nulls / cells) * 100, 2) in hundredths; a half needs a number of cells
\* that is a multiple of 32, which no table of TableProfiles has
QualityScore(nulls, cells) == (20000 * (cells - nulls) + cells) \div (2 * cells)

\* analyze_data_quality(df): the metrics the recommendations read
AnalyzeDataQuality(df) ==
    IF df.rows = 0 \/ Len(df.columns) = 0
    THEN NoQuality
    ELSE [missing_values |-> [k \in 1..Len(df.columns) |-> df.profile[k].missing],
          unique_counts  |-> [k \in 1..Len(df.columns) |-> NUnique(df, k)],
          quality_score  |-> QualityScore(TotalNulls(df.profile), df.rows * Len(df.columns))]

\* the assessment with the bounds taken as strict
QualityRecommendationStrict(quality_score) ==
    IF quality_score > ExcellentScore * 100
    THEN [type |-> "success", title |-> "Excellent Data Quality"]
    ELSE IF quality_score > GoodScore * 100
    THEN [type |-> "info", title |-> "Good Data Quality"]
    ELSE [type |-> "warning", title |-> "Data Quality Needs Attention"]

\* the data quality score assessment of generate_data_recommendations
QualityRecommendation(quality_score) ==
    IF quality_score >= ExcellentScore * 100
    THEN [type |-> "success", title |-> "Excellent Data Quality"]
    ELSE IF quality_score >= GoodScore * 100
    THEN [type |-> "info", title |-> "Good Data Quality"]
    ELSE [type |-> "warning", title |-> "Data Quality Needs Attention"]

\* generate_data_recommendations(df, data_quality): the recommendations in the order
\* they are appended, each by its type and title
GenerateDataRecommendations(df, data_quality) ==
    LET cols == 1..Len(df.columns)
        high_missing == {k \in DOMAIN data_quality.missing_values :
                            data_quality.missing_values[k] * MissingShare > df.rows}
        low_cardinality == {k \in DOMAIN data_quality.unique_counts :
                               data_quality.unique_counts[k] = 1}
        id_candidates == {k \in cols : \/ Contains(StrLower(df.columns[k]), "id")
                                       \/ Contains(StrLower(df.columns[k]), "number")}
        high_cardinality == {k \in cols :
                                /\ df.profile[k].kind # "numeric"
                                /\ NUnique(df, k) * 100 > CardinalityShare * df.rows
                                /\ df.rows > CardinalityRows}
        When(S, type, title) ==
            IF S # {} THEN << [type |-> type, title |-> title] >> ELSE << >>
    IN  When(high_missing, "warning", "High Missing Data")
        \o When(low_cardinality, "warning", "Constant Columns")
        \o When(id_candidates, "success", "Potential Primary Keys")
        \o When(high_cardinality, "info", "High Cardinality Columns")
        \o << QualityRecommendation(data_quality.quality_score) >>

\* modernize_file has the table of process_file in hand (analyze_sample_data the table
\* it read from the sample)
ReceiveTable ==
    /\ analysis.phase = "none"
    /\ \E df \in TableProfiles :
         analysis' = [NoAnalysis EXCEPT !.phase = "table", !.df = df]
    /\ UNCHANGED << has_transformers, cache, pc, status, ncols, modernized_columns, res,
                    probe, inflight, decoding, parsing, resolution >>

\* data_quality = data_service.analyze_data_quality(df)
AnalyzeTable ==
    /\ analysis.phase = "table"
    /\ analysis' = [analysis EXCEPT !.phase = "analyzed",
                                    !.data_quality = AnalyzeDataQuality(analysis.df)]
    /\ UNCHANGED << has_transformers, cache, pc, status, ncols, modernized_columns, res,
                    probe, inflight, decoding, parsing, resolution >>

\* recommendations = data_service.generate_data_recommendations(df, data_quality)
RecommendForTable ==
    /\ analysis.phase = "analyzed"
    /\ analysis' = [analysis EXCEPT
                       !.phase = "recommended",
                       !.recommendations =
                           GenerateDataRecommendations(analysis.df, analysis.data_quality)]
    /\ UNCHANGED << has_transformers, cache, pc, status, ncols, modernized_columns, res,
                    probe, inflight, decoding, parsing, resolution >>

\* the handler returns its response with data_quality and recommendations in it; the
\* next request starts with nothing
ReturnReport ==
    /\ analysis.phase = "recommended"
    /\ analysis' = NoAnalysis
    /\ UNCHANGED << has_transformers, cache, pc, status, ncols, modernized_columns, res,
                    probe, inflight, decoding, parsing, resolution >>

QualityNext ==
    \/ ReceiveTable
    \/ AnalyzeTable
    \/ RecommendForTable
    \/ ReturnReport

QualitySpec == Init /\ [][QualityNext]_vars

(***************************************************************************)
(* Properties.                                                             *)
(***************************************************************************)

\* a resolution has ended with a name
Returned == res.stage \in Stages

\* a resolution by modernize_column_name has ended with a name
Renamed == res.stage \in (Stages \ {"content"})

\* C1: every column name of a returned table matches ^[a-z][a-z0-9_]*$ and is between
\* 2 and 40 characters long
C1_ReturnedNamesValid ==
    pc = "done" =>
        \A k \in 1..Len(modernized_columns) :
            /\ IsSnakeIdentifier(modernized_columns[k])
            /\ Len(modernized_columns[k]) >= 2
            /\ Len(modernized_columns[k]) <= 40

\* C2: the column names of a returned table are pairwise distinct
C2_ReturnedNamesDistinct ==
    pc = "done" =>
        \A j, k \in 1..Len(modernized_columns) :
            j # k => modernized_columns[j] # modernized_columns[k]

\* C3: the name a resolution returns is not a string the validator rejected in that
\* resolution, and a name returned by the dictionary, generative or heuristic stage was
\* accepted by the validator
C3_RejectedNeverReturned ==
    Returned =>
        /\ res.name \notin res.rejected
        /\ res.stage \in {"dictionary", "generative", "heuristic"}
               => ValidateColumnName(res.name, res.orig)

\* C4: a resolution of an original name that was resolved before returns the name it
\* returned then
C4_SameNameSameResult ==
    (Renamed /\ res.known) => res.name = res.prev

\* C5: CUSTNO resolves to customer_number with the generative capability present or not,
\* and a name whose dictionary candidate passes the validator resolves to that candidate
\* without any call of the generative capability
C5_DictionaryDeterminism ==
    /\ (Renamed /\ res.orig = "CUSTNO") =>
           (res.name = "customer_number" /\ res.gen_calls = 0)
    /\ \A c \in Headers :
           (res.stage \in (Stages \cup {"pending"}) /\ res.orig = c /\ c # ""
                /\ AnalyzeAs400Patterns(c) # ToSnakeCase(c)
                /\ ValidateColumnName(AnalyzeAs400Patterns(c), c))
           => (Renamed /\ res.name = AnalyzeAs400Patterns(c) /\ res.gen_calls = 0)

\* C5 witness: with the capability present, CUSTNO has been resolved by the dictionary
C5_Witness ==
    /\ has_transformers
    /\ res.orig = "CUSTNO"
    /\ res.stage = "dictionary"
    /\ res.name = "customer_number"

\* C6: no name is accepted from the generative stage when the generated text equals the
\* original name ignoring case
C6_EchoNeverAccepted ==
    ~(res.stage = "generative" /\ StrLower(res.gen_text) = StrLower(res.orig))

\* C7: no ingestion is aborted by a failure inside the resolver
C7_ResolverNeverAborts ==
    pc # "failed" /\ status # 500 /\ res.stage # "raised"

\* C8: the generative capability is called at most once in a resolution, and a resolution
\* in which it raised or for which it is unavailable still ends with a name
C8_FallbackWithoutRetry ==
    /\ res.gen_calls <= 1
    /\ res.gen_raised => res.stage \in {"heuristic", "fallback"}
    /\ (~has_transformers /\ res.stage \notin {"none", "pending"}) => Returned

\* C9: a resolution that waits for the generative capability eventually goes on
C9_GenerativeCallEnds ==
    (pc = "generating") ~> (pc # "generating")

\* C10: a resolution of an original name that was resolved before, by whatever stage, is
\* served from the cache with the name stored then
C10_LaterResolutionsFromCache ==
    (Returned /\ res.known) => (res.stage = "cache" /\ res.name = res.prev)

\* C11: the cache is append-only: every entry it holds before a step it holds after the
\* step with the same resolved name, so that nothing inserted is evicted or replaced
C11_CacheAppendOnly ==
    [][\A k \in 1..Len(cache) :
           \E j \in 1..Len(cache') : cache'[j] = cache[k]]_vars

C20_OnlySlugUnvalidated ==
    (Returned /\ res.stage \in {"dictionary", "content", "generative", "heuristic"})
        => ValidateColumnName(res.name, res.orig)

\* C19: decoding never fails: for every byte buffer and whatever encoding detection does,
\* safe_decode returns a text; the bytes below 128 of the buffer are in it in their
\* order unless the detected codec is one that maps every byte, when the text is the
\* buffer itself; and when detection raises, finds nothing or names an encoding without
\* a codec the text is the UTF-8 decoding of the buffer with the invalid sequences
\* dropped
C19_DecodingNeverFails ==
    decoding.phase = "decoded" =>
        /\ ~decoding.raised
        /\ Len(decoding.text) <= Len(decoding.raw_bytes)
        /\ AsciiIgnore(decoding.text) = AsciiIgnore(decoding.raw_bytes)
        /\ decoding.detect \in {"raises", "none", "EUC-TW"}
               => decoding.text = Utf8Ignore(decoding.raw_bytes)

\* C19 witness: chardet named an encoding without a codec for a buffer with an invalid
\* byte, and the decoder returned the rest of the buffer
C19_Witness ==
    /\ decoding.phase = "decoded"
    /\ decoding.detect = "EUC-TW"
    /\ decoding.raw_bytes = << 65, 255, 195 >>
    /\ decoding.text = << 65 >>

\* C13: every table a parse strategy hands on, whichever strategy it is, has more than one
\* column and at least one row
C13_HandedOnTablesUsable ==
    parsing.phase = "parsed" =>
        (Len(parsing.df.columns) > 1 /\ Len(parsing.df.rows) >= 1)

\* C14: an ingestion that fails because no parse strategy gave a table fails with status
\* 400, whatever the extension of the file
C14_ExhaustionIsClientError ==
    (parsing.phase = "failed" /\ parsing.exhausted) => parsing.status = 400

\* the document has no row of data: a text of at most a header line, a sheet without rows
ZeroDataRows ==
    IF parsing.ext = "xlsx" THEN ~parsing.df.raised /\ parsing.df.rows = << >>
    ELSE Len(NonBlank(parsing.text)) <= 1

\* every row of the parsed table is empty in every cell
AllRowsEmpty ==
    /\ ~parsing.df.raised
    /\ \A r \in 1..Len(parsing.df.rows) : AllNull(parsing.df.rows[r])

\* C15: an ingestion of a document without a row of data, or with empty rows only, does
\* not end with a table: it ends with the client error of the empty result
C15_EmptyDocumentsFail ==
    (parsing.phase \in {"table", "failed"} /\ (ZeroDataRows \/ AllRowsEmpty))
        => (parsing.phase = "failed" /\ parsing.status = 400)

\* C16: every row of an assembled table has as many cells as the table has headers,
\* whichever strategy assembled it
C16_RowsMatchHeaders ==
    parsing.phase \in {"parsed", "table"} =>
        \A r \in 1..Len(parsing.df.rows) :
            Len(parsing.df.rows[r]) = Len(parsing.df.columns)

\* C16 witness: manual tokenization has cut a row of three tokens to the two headers and
\* filled a row of one token with an empty cell
C16_Witness ==
    /\ parsing.phase = "parsed"
    /\ parsing.df.strategy = "manual"
    /\ parsing.text = << "x y", "1 2", "3 4 5", "6" >>
    /\ parsing.df.columns = << "x", "y" >>
    /\ parsing.df.rows = << << "1", "2" >>, << "3", "4" >>, << "6", "" >> >>

\* the character boundaries of NAME, AGE and CITY in the header line NAME   AGE  CITY
ReportSpans == << [start |-> 0, end |-> 4], [start |-> 7, end |-> 10],
                 [start |-> 12, end |-> 16] >>

\* C17: for the report with the header NAME   AGE  CITY, fixed-width parsing gives the
\* columns NAME, AGE, CITY and one row for every line of data, whose cells are the line
\* cut at the boundaries of the header tokens, empty where the line ends before them
C17_ReportRoundTrip ==
    (parsing.phase = "parsed" /\ parsing.ext = "txt" /\ parsing.text \in ReportTexts) =>
        /\ parsing.df.columns = << "NAME", "AGE", "CITY" >>
        /\ Len(parsing.df.rows) = Len(parsing.text) - 1
        /\ \A k \in 1..Len(parsing.df.rows) : \A j \in 1..3 :
               parsing.df.rows[k] [j] =
                   SliceCell(parsing.text[k + 1], ReportSpans[j].start, ReportSpans[j].end)

\* the pipe candidate of the fallback list has produced the table of the ingestion
ByPipeCandidate ==
    /\ parsing.phase \in {"parsed", "table"}
    /\ parsing.df.strategy = "fallback"
    /\ parsing.df.delimiter = "|"
    /\ Len(parsing.df.columns) > 1

\* C18 as stated: every text with the pipe as its only separator, when the sniffer has
\* failed, is parsed by the pipe candidate of the fallback list into more than one column
C18_AnyPipeText ==
    (parsing.phase \in {"parsed", "table", "failed"} /\ parsing.ext = "txt"
         /\ parsing.text \in PipeTexts /\ parsing.sniffed = "none")
        => ByPipeCandidate

\* the text has a row of data and no row with more fields than its header
PipeRowsFitHeader(text) ==
    /\ Len(text) >= 2
    /\ \A i \in 2..Len(text) : Len(SplitOn(text[i], "|")) <= Len(SplitOn(text[1], "|"))

\* C18 amended: a text with the pipe as its only separator that has a row of data and no
\* row longer than its header, when the sniffer has failed, is parsed by the pipe
\* candidate of the fallback list, after the comma and the tab, into more than one column
C18_PipeTable ==
    (parsing.phase \in {"parsed", "table", "failed"} /\ parsing.ext = "txt"
         /\ parsing.text \in PipeTexts /\ PipeRowsFitHeader(parsing.text)
         /\ parsing.sniffed = "none")
        => /\ ByPipeCandidate
           /\ ~Usable(ReadCsv(parsing.text, DelimitersToTry[1], "fallback"))
           /\ ~Usable(ReadCsv(parsing.text, DelimitersToTry[2], "fallback"))
           /\ DelimitersToTry[3] = "|"

\* C18 witness: the sniffer failed on a pipe table and the pipe candidate parsed it
C18_Witness ==
    /\ parsing.phase = "parsed"
    /\ parsing.sniffed = "none"
    /\ parsing.text = << "A|B", "1|2", "3|4" >>
    /\ parsing.df.strategy = "fallback"
    /\ parsing.df.delimiter = "|"
    /\ parsing.df.columns = << "A", "B" >>
    /\ parsing.df.rows = << << "1", "2" >>, << "3", "4" >> >>

\* the name of the column at index i was made up on the way to the resolver: the reader
\* names an empty header field Unnamed: <i>, process_file names a blank header col_<i>
\* (recorded here before that); no text of the model spells a header cell that way
GeneratedPlaceholder(c, i) == Strip(c) = "" \/ c = "Unnamed: " \o IntToStr(i)

\* C21: a column goes to content inference, past the dictionary stage, if and only if
\* its header is blank or a placeholder made up by the reader or by process_file; a
\* header of the input, however it is spelt, goes to modernize_column_name
C21_OnlyGeneratedToInference ==
    \A k \in 1..Len(parsing.routes) :
        (parsing.routes[k] = "content")
            <=> GeneratedPlaceholder(parsing.original_columns[k], k - 1)

\* the non-blank cells content inference looks at for the column at position k
InferenceSample(k) == SampleOf(ColumnData(parsing.df, k - 1))

\* the five words of the status pattern
StatusWords == {"active", "inactive", "pending", "approved", "rejected"}

\* a value no pattern of the library can match: it holds a lower-case letter (so it is no
\* phone number, date, postal code, amount, quantity, identifier or percentage), it holds
\* no @ and it is none of the status words
MatchesNoPattern(v) ==
    /\ CharSet(v) \cap LowerSet # {}
    /\ "@" \notin CharSet(v)
    /\ StrLower(v) \notin StatusWords

\* C22: with the generative capability available, a column sent to content inference
\* whose sample is not blank and has no value matching a pattern has had one inference
\* prompt issued by the time its resolution ends
C22_InferencePromptIssued ==
    \A k \in 1..Len(parsing.routes) :
        (/\ has_transformers
         /\ parsing.routes[k] = "content"
         /\ InferenceSample(k) # << >>
         /\ \A j \in 1..Len(InferenceSample(k)) : MatchesNoPattern(InferenceSample(k)[j]))
            => parsing.inference_prompts >= 1

\* the names of the pattern library, in the order of their declaration
PatternNames ==
    << "email", "phone_number", "date", "zip_code", "amount", "price", "quantity", "id",
       "percentage", "status" >>

\* C23: content inference on a sample that is not blank ends with the name of the
\* winning pattern or with the coarse label numeric_<i> or text_<i> of the column
C23_InferenceNamesSample ==
    \A k \in 1..Len(parsing.routes) :
        (parsing.routes[k] = "content" /\ InferenceSample(k) # << >>)
            => /\ parsing.phase = "returned"
               /\ parsing.modernized_columns[k] \in
                      {PatternNames[n] : n \in 1..Len(PatternNames)}
                          \cup {"numeric_" \o IntToStr(k - 1), "text_" \o IntToStr(k - 1)}

\* the position of the line detect_fixed_width_structure takes for the header
HeaderLineIndex(lines) ==
    Min({i \in 1..Len(FirstLines(lines, 5)) :
            /\ ~IsBlank(lines[i])
            /\ ~IsSeparatorLine(lines[i])
            /\ HasLetter(lines[i])
            /\ ~IsPageFurniture(lines[i])})

\* the rows cut out of the lines after the header line, but for the separator lines and
\* the rows without any cell, in the order of the lines
RowsAfterHeader(lines) ==
    LET structure == DetectFixedWidthStructure(lines)
        later == SubSeq(lines, HeaderLineIndex(lines) + 1, Len(lines))
        kept == SelectSeq(later, LAMBDA line :
                              /\ ~IsSeparatorLine(line)
                              /\ \E j \in 1..Len(structure) :
                                     FixedRow(line, structure)[j] # "")
    IN  [k \in 1..Len(kept) |-> FixedRow(kept[k], structure)]

\* C24: the rows of a table of the structural fixed-width parser are the rows of the
\* lines after the detected header line, separator lines and rows without any cell left
\* out, in the order of the input; the header line and the lines before it give no row
C24_DataRowsFollowHeader ==
    (parsing.phase = "parsed" /\ parsing.df.strategy = "structural")
        => parsing.df.rows = RowsAfterHeader(StrippedLines(parsing.text))

\* the header tokens of the text with the positions they have in the header line as the
\* upload holds it
HeaderTokenExtents(text) ==
    HeaderWords(NonBlank(text)[HeaderLineIndex(StrippedLines(text))], 0)

\* C30: in a table of the structural fixed-width parser every row is a line of the text
\* cut at the extents of the header tokens: a cell holds the characters of its line that
\* stand within the extent of the column's header token, without the surrounding blanks,
\* and no other character
C30_CellsWithinHeaderExtent ==
    (parsing.phase = "parsed" /\ parsing.df.strategy = "structural")
        => \A k \in 1..Len(parsing.df.rows) :
               \E n \in 1..Len(parsing.text) :
                   parsing.df.rows[k] = FixedRow(parsing.text[n],
                                                 HeaderTokenExtents(parsing.text))

\* the word the table of abbreviations has for a run of letters, the run itself when it
\* has none
FullWord(word) ==
    LET ks == {k \in 1..Len(Abbreviations) : Abbreviations[k][1] = word}
    IN  IF ks = {} THEN word ELSE Abbreviations[Min(ks)][2]

\* a lower-case name with each of its maximal runs of letters replaced by its full word,
\* whatever stands between the runs kept
RECURSIVE ExpandTokens(_)
ExpandTokens(r) ==
    IF r = "" THEN ""
    ELSE IF Head(r) \notin LowerSet THEN Head(r) \o ExpandTokens(Tail(r))
    ELSE LET n == Min({e \in 1..Len(r) : e = Len(r) \/ CharAt(r, e + 1) \notin LowerSet})
         IN  FullWord(SubSeq(r, 1, n)) \o ExpandTokens(SubSeq(r, n + 1, Len(r)))

\* the name the heuristic stage is to propose: the tokens expanded, then snake_case
TokenExpansion(col) == ToSnakeCase(ExpandTokens(StrLower(col)))

\* the original name of the column at position k as the resolver is given it
OriginalCol(k) == Strip(TemporaryColumn(parsing.original_columns[k], k - 1))

\* C25: the heuristic stage proposes the name in which every abbreviation standing as a
\* token of the lower-cased original name (between the ends of the name and characters
\* that are not letters) is replaced by its full word and the rest is kept, normalized to
\* snake_case: a name returned by the heuristic stage is that name, and the slug is
\* returned in its place only if the validator rejects that name
C25_StandaloneAbbreviationsExpanded ==
    parsing.phase = "returned" =>
        \A k \in 1..Len(parsing.stages) :
            /\ parsing.stages[k] = "heuristic"
                   => parsing.modernized_columns[k] = TokenExpansion(OriginalCol(k))
            /\ parsing.stages[k] = "fallback"
                   => ~ValidateColumnName(TokenExpansion(OriginalCol(k)), OriginalCol(k))

\* a slug as the last stage is to give it: not empty, in lower case, without two
\* underscores in a row and without an underscore at either end
WellFormedSlug(name) ==
    /\ name # ""
    /\ name = StrLower(name)
    /\ ~Contains(name, "__")
    /\ ~StartsWith(name, "_")
    /\ ~EndsWith(name, "_")

\* normalization leaves nothing of the name: it holds no letter and no digit
NothingLeft(col) == CharSet(col) \cap (LowerSet \cup UpperSet \cup DigitSet) = {}

\* a resolution that no stage before the slug has answered
NoEarlierStage == resolution.stage \in {"fallback", "blank"}

\* C26 as stated: the slug is well formed, and a resolution that no earlier stage answers
\* gives the literal column for every name normalization leaves nothing of, a blank or
\* whitespace-only name included
C26_NothingLeftGivesColumn ==
    /\ resolution.stage = "fallback" => WellFormedSlug(resolution.name)
    /\ (NoEarlierStage /\ NothingLeft(resolution.col)) => resolution.name = "column"

\* C26: the slug of the last stage is not empty, is in lower case, has no two
\* underscores in a row and none at its ends; for a name that is not blank and of which
\* normalization leaves nothing it is the literal column; a blank or whitespace-only name
\* does not reach the slug, the resolver returns unknown_column for it
C26_SlugWellFormed ==
    /\ resolution.stage = "fallback" => WellFormedSlug(resolution.name)
    /\ (NoEarlierStage /\ NothingLeft(resolution.col) /\ Strip(resolution.col) # "")
           => (resolution.stage = "fallback" /\ resolution.name = "column")
    /\ (resolution.stage # "none" /\ Strip(resolution.col) = "")
           => resolution.name = "unknown_column"

\* C26 witness: the name of punctuation only has gone through to the slug, which is the
\* literal column, after a name with underscores at its ends was cut to its letter
C26_Witness ==
    /\ resolution.stage = "fallback"
    /\ resolution.col = "--"
    /\ resolution.name = "column"
    /\ \E k \in 1..Len(cache) : cache[k].col = "_x_" /\ cache[k].name = "x"

\* the name is a key of the curated dictionary, ignoring case
IsDictionaryKey(col) ==
    \E k \in 1..Len(As400Mappings) : As400Mappings[k][1] = StrUpper(col)

\* C29: with the generative capability absent, a name that is a key of the dictionary
\* ignoring case and whose dictionary value is not its plain slug resolves to that value,
\* which the validator accepts against the name
C29_DictionaryKeysResolve ==
    LET col == Strip(resolution.col)
    IN  (/\ ~has_transformers
         /\ resolution.stage # "none"
         /\ IsDictionaryKey(col)
         /\ AnalyzeAs400Patterns(col) # ToSnakeCase(col))
            => /\ ValidateColumnName(AnalyzeAs400Patterns(col), col)
               /\ resolution.name = AnalyzeAs400Patterns(col)

\* the names the column at position k of the table can be given: what the resolver can
\* return for its header, or infers from its cells, after the final validation
ColumnResolutions(df, k, ht) ==
    {FinalName(r.name, k - 1) :
        r \in {f \in ResolveColumn(df, k - 1, << >>, ht) : ~f.raised}}

\* the step in which process_file renames the columns of its table and returns
RenamingStep == parsing.phase = "table" /\ parsing'.phase = "returned"

\* C27: renaming keeps the table: the returned table has as many columns as the parsed
\* one, the name at each position is a resolution of the header and the cells at that
\* position, the recorded original and new names are lists of the same length aligned by
\* position, and the rows are the rows of the parsed table, cell for cell and in order
C27_ResolutionPreservesTable ==
    [][RenamingStep =>
          /\ Len(parsing'.df.columns) = Len(parsing.df.columns)
          /\ parsing'.df.rows = parsing.df.rows
          /\ parsing'.modernized_columns = parsing'.df.columns
          /\ Len(parsing'.original_columns) = Len(parsing'.modernized_columns)
          /\ \A k \in 1..Len(parsing.df.columns) :
                 /\ parsing.df.columns[k] = TemporaryColumn(parsing'.original_columns[k], k - 1)
                 /\ parsing'.modernized_columns[k]
                        \in ColumnResolutions(parsing.df, k, has_transformers)]_vars

\* C27 witness: the report with the columns CUSTNO and NAME has come back with its two
\* rows, the first column named by the dictionary and the second by the slug
C27_Witness ==
    /\ parsing.phase = "returned"
    /\ parsing.original_columns = << "CUSTNO", "NAME" >>
    /\ parsing.modernized_columns = << "customer_number", "name" >>
    /\ parsing.df.rows = << << "100", "Ann" >>, << "200", "Bo" >> >>

\* the titles of the recommendations that assess the quality score
QualityTitles ==
    {"Excellent Data Quality", "Good Data Quality", "Data Quality Needs Attention"}

\* the positions of the quality-score recommendations in the list
QualityEntries ==
    {k \in DOMAIN analysis.recommendations :
        analysis.recommendations[k].title \in QualityTitles}

\* the cells of the analysed table and those of them that are present
AnalysedCells == analysis.df.rows * Len(analysis.df.columns)
PresentCells == AnalysedCells - TotalNulls(analysis.df.profile)

====
